---- MODULE Spec2Model ----
(***************************************************************************)
(* Reactive propagation engine of deckyfx/blank-bun: EventEmitter,         *)
(* ObservableValue, signal / batchUpdate, computed and effect; and Task.   *)
(*                                                                         *)
(* The program is single threaded and every write propagates               *)
(* synchronously, so one action of this module is one top-level call made  *)
(* by user code (an assignment, a subscribe, entering or leaving a         *)
(* batchUpdate body, ...).  The whole synchronous call tree of such a call *)
(* (setter -> emit -> listeners -> setters of computed values -> ...) is   *)
(* evaluated by the recursive operators below on a record "m" that holds   *)
(* the mutable heap while the call runs:                                   *)
(*    m.val    ObservableValue._value of every observable                  *)
(*    m.cur    the closure variable currentValue of signal()               *)
(*    m.heap   the listener arrays, one entry per array OBJECT             *)
(*    m.map    EventEmitter._listeners: observable -> index into m.heap,   *)
(*             0 when the "change" key is absent                           *)
(*    m.queue  updateQueue (a Set iterates in insertion order)             *)
(*    m.batching  isBatching                                               *)
(*    m.exc    the exception in flight, "none" when there is none          *)
(*    m.log    what happened, in order (used only by the properties)       *)
(***************************************************************************)
EXTENDS Integers, Sequences, FiniteSets, TLC

\* ---------------------------------------------------------------- bounds
MaxVal == 1        \* values written are 0..MaxVal
MaxSubs == 1       \* user listeners registered at any one time
MaxDepth == 2      \* batchUpdate calls nested on the call stack
MaxListeners == 3  \* listeners registered on the emitter exercised directly
MaxHandles == 3    \* detachment functions kept by user code
MaxDeps == 2       \* length of the dependency list handed to effect()
MaxAborts == 2     \* calls of task.abort()
MaxSteps == 2      \* steps the work function of a task executes
MaxArgs == 2       \* arguments handed to task.run() after scope
Delay == 2         \* the delay handed to debounce(), in clock ticks
MaxLate == 1       \* ticks a due timer may wait before its callback runs
MaxCalls == 3      \* calls of the debounced function
MaxTime == 6       \* the clock stops here

Values == 0..MaxVal

\* ---------------------------------------------------------------- the program under study
\* Two sources, c1 = computed([s1, s2], transform1), c2 = computed([c1], transform2).
Sources == {"s1", "s2"}
Computeds == {"c1", "c2"}
Obs == Sources \cup Computeds
ObsOrder == <<"s1", "s2", "c1", "c2">>

SourcesOf(c) == IF c = "c1" THEN <<"s1", "s2">> ELSE <<"c1">>

Max(a, b) == IF a >= b THEN a ELSE b

\* The transform functions handed to computed(): neither is injective, so a
\* recomputation can return the value the computed value already holds.
transform(c, vals) ==
  IF c = "c1" THEN Max(vals[1], vals[2])
  ELSE IF vals[1] >= 1 THEN 1 ELSE 0

\* Listener functions.  "rc_*" are the closures computed() subscribes, one per
\* (computed value, source index); the others are user functions:
\*   rec  reads every observable and returns          (an effect / plain listener)
\*   thr  throws
\*   uns  calls c1.unsubscribeSources() when c1 exists
\*   rmv  removes itself with off() while it runs
\*   rmr  removes rec with off() while it runs
\*   wr   assigns 0 to the observable that is notifying it
\*   add  registers rec with on() on the emitter that is calling it
\* "once_*" are the onceListener closures once() builds around rec, thr and wr.
RcListeners == {"rc_c1_1", "rc_c1_2", "rc_c2_1"}
UserListeners == {"rec", "thr", "uns"}
EmitterListeners == {"rec", "thr", "rmv", "rmr"}
ReentryListeners == {"rec", "rmv", "add"}
NestedListeners == {"rec", "wr"}
OnceInner == {"rec", "thr", "wr"}
OnceListeners == {"once_rec", "once_thr", "once_wr"}

\* "fx_*" is the executeCallback closure of the effect() call under study, named
\* after what its callback does: return (ok), throw (thr), or return a promise
\* that rejects (rej).
EffectKinds == {"ok", "thr", "rej"}
EffectListeners == {"fx_ok", "fx_thr", "fx_rej"}

FxName(kind) ==
  IF kind = "ok" THEN "fx_ok" ELSE IF kind = "thr" THEN "fx_thr" ELSE "fx_rej"

\* Elements of a dependency list: the sources, or "bad", a value that is not an
\* ObservableValue.
DepElems == Sources \cup {"bad"}
DepLists == UNION {[1..n -> DepElems] : n \in 0..MaxDeps}

OnceName(l) ==
  IF l = "rec" THEN "once_rec" ELSE IF l = "thr" THEN "once_thr" ELSE "once_wr"

OnceTarget(w) ==
  IF w = "once_rec" THEN "rec" ELSE IF w = "once_thr" THEN "thr" ELSE "wr"

RcName(c, i) ==
  IF c = "c1" THEN (IF i = 1 THEN "rc_c1_1" ELSE "rc_c1_2") ELSE "rc_c2_1"

RcTarget(l) == IF l = "rc_c2_1" THEN "c2" ELSE "c1"

VARIABLES
  constructed,   \* which observables exist
  wrapped,       \* which observables had "value" redefined by signal()
  _value,        \* ObservableValue._value
  currentValue,  \* signal(): let currentValue (0 while not wrapped)
  _listeners,    \* EventEmitter._listeners.get("change"), <<>> when absent
  hasKey,        \* EventEmitter._listeners.has("change")
  updateQueue,   \* Signal.ts updateQueue, in insertion order
  isBatching,    \* Signal.ts isBatching
  depth,         \* batchUpdate calls whose body is running
  written,       \* history: observables queued while the outermost body ran
  deb,           \* the function debounce() returned, its timers and the clock
  released,      \* history: computed values whose unsubscribeSources() returned
  handles,       \* detachment functions subscribe() returned that user code kept
  fx,            \* the effect() call under study: its callback, dependencies, state
  task,          \* the Task under study, its run() call and its work function
  last,          \* history: the call made by the last step and its outcome
  log            \* history: what the last step did, in order

vars == <<constructed, wrapped, _value, currentValue, _listeners, hasKey,
          updateQueue, isBatching, depth, written, deb, released,
          handles, fx, task, last, log>>

\* ---------------------------------------------------------------- helpers on m
IndexOf(o) == CHOOSE i \in 1..Len(ObsOrder) : ObsOrder[i] = o

\* The heap at the start of a call: one array object per registered key.
Start ==
  [val |-> _value, cur |-> currentValue,
   heap |-> <<_listeners["s1"], _listeners["s2"], _listeners["c1"], _listeners["c2"]>>,
   map |-> [o \in Obs |-> IF hasKey[o] THEN IndexOf(o) ELSE 0],
   queue |-> updateQueue, batching |-> isBatching, exc |-> "none", log |-> <<>>]

ListenersOf(m, o) == IF m.map[o] = 0 THEN <<>> ELSE m.heap[m.map[o]]

\* get value(): the class getter, or the getter installed by signal().
Read(m, o) == IF wrapped[o] THEN m.cur[o] ELSE m.val[o]

ReadAll(m) == [o \in Obs |-> Read(m, o)]

\* A log entry: t = "call" (listener l, registered at position i of the array
\* being walked, is entered with argument arg for observable o) or t = "unsub"
\* (unsubscribeSources() of o has returned); view is what get value() returns
\* for every observable at that moment.
Event(m, t, l, o, arg, i) ==
  [t |-> t, l |-> l, o |-> o, arg |-> arg, i |-> i, view |-> ReadAll(m),
   batching |-> m.batching]

Logged(m, t, l, o, arg, i) ==
  [m EXCEPT !.log = Append(@, Event(m, t, l, o, arg, i))]

\* ---------------------------------------------------------------- EventEmitter
\* on(): push onto the array object of the key, creating it when absent.
On(m, o, l) ==
  IF m.map[o] = 0
  THEN [m EXCEPT !.heap = Append(@, <<l>>), !.map[o] = Len(m.heap) + 1]
  ELSE [m EXCEPT !.heap[m.map[o]] = Append(@, l)]

\* Mutant of off: the key is kept, with an empty array, when nothing is left.
C11Mut_Off(m, o, l) ==
  IF m.map[o] = 0 THEN m
  ELSE LET newListeners == SelectSeq(m.heap[m.map[o]], LAMBDA x : x # l)
       IN [m EXCEPT !.heap = Append(@, newListeners), !.map[o] = Len(m.heap) + 1]

\* Mutant of off: the listener is spliced out of the array object in place.
C12Mut_Off(m, o, l) ==
  IF m.map[o] = 0 THEN m
  ELSE LET newListeners == SelectSeq(m.heap[m.map[o]], LAMBDA x : x # l)
       IN IF Len(newListeners) > 0
          THEN [m EXCEPT !.heap[m.map[o]] = newListeners]
          ELSE [m EXCEPT !.map[o] = 0]

\* off(): filter into a NEW array; the key is deleted when nothing is left.
Off(m, o, l) ==
  IF m.map[o] = 0 THEN m
  ELSE LET newListeners == SelectSeq(m.heap[m.map[o]], LAMBDA x : x # l)
       IN IF Len(newListeners) > 0
          THEN [m EXCEPT !.heap = Append(@, newListeners),
                         !.map[o] = Len(m.heap) + 1]
          ELSE [m EXCEPT !.map[o] = 0]

\* removeAllListeners(event) / removeAllListeners(): the emitter of an observable
\* holds the single key "change", so delete(event) and clear() both drop it.
removeAllListeners(m, o) == [m EXCEPT !.map[o] = 0]

\* What emit returns when no listener throws: whether the key was present.
emitReturn(m, o) == m.map[o] # 0

RECURSIVE UnsubscribeLoop(_, _, _)

\* Mutant of unsubscribeSources: only the first detachment function is called.
C10Mut_UnsubscribeLoop(m, c, i) ==
  IF i > 1 THEN m
  ELSE UnsubscribeLoop(Off(m, SourcesOf(c)[i], RcName(c, i)), c, i + 1)

UnsubscribeLoop(m, c, i) ==
  IF i > Len(SourcesOf(c)) THEN m
  ELSE UnsubscribeLoop(Off(m, SourcesOf(c)[i], RcName(c, i)), c, i + 1)

\* computed$.unsubscribeSources(): every stored detachment function, in order.
unsubscribeSources(m, c) ==
  LET m1 == UnsubscribeLoop(m, c, 1) IN Logged(m1, "unsub", "-", c, 0, 0)

RECURSIVE EmitLoop(_, _, _, _, _)
RECURSIVE Invoke(_, _, _, _, _)
RECURSIVE Body(_, _, _)
RECURSIVE emit(_, _, _)
RECURSIVE updateValue(_, _, _)
RECURSIVE ClassSet(_, _, _)
RECURSIVE SignalSet(_, _, _)
RECURSIVE SetValue(_, _, _)

\* Mutant of the emit loop: the listeners are called last registered first.
C7Mut_EmitLoop(m, a, i, o, v) ==
  IF m.exc # "none" \/ i > Len(m.heap[a]) THEN m
  ELSE LET r == Len(m.heap[a]) + 1 - i
       IN EmitLoop(Invoke(m, m.heap[a][r], o, v, r), a, i + 1, o, v)

\* Mutant of the emit loop: a throw of a listener does not end the loop.
C19Mut_EmitLoop(m, a, i, o, v) ==
  IF i > Len(m.heap[a]) THEN m
  ELSE EmitLoop(Invoke(m, m.heap[a][i], o, v, i), a, i + 1, o, v)

\* for (const listener of listeners) listener(...args): the loop walks the array
\* object it fetched, up to that object's current length; a throw ends it.
EmitLoop(m, a, i, o, v) ==
  IF m.exc # "none" \/ i > Len(m.heap[a]) THEN m
  ELSE EmitLoop(Invoke(m, m.heap[a][i], o, v, i), a, i + 1, o, v)

\* Mutant of emit: the listeners are not called before emit returns.
C8Mut_emit(m, o, v) == m

emit(m, o, v) ==
  IF m.map[o] = 0 THEN m ELSE EmitLoop(m, m.map[o], 1, o, v)

\* What the user function l does when it is called for observable o.
Body(m, l, o) ==
  IF l = "thr" THEN [m EXCEPT !.exc = "listener"]
  ELSE IF l = "uns" /\ constructed["c1"] THEN unsubscribeSources(m, "c1")
  ELSE IF l = "rmv" THEN Off(m, o, "rmv")
  ELSE IF l = "rmr" THEN Off(m, o, "rec")
  ELSE IF l = "wr" THEN SetValue(m, o, 0)
  ELSE IF l = "add" THEN On(m, o, "rec")
  ELSE m

\* executeCallback of effect(): the callback is called; a promise it returns gets
\* a catch handler that logs the rejection (entered here in the log of the same
\* call, it runs in a later microtask); a synchronous throw is not caught.
executeCallback(m, l, o) ==
  IF l = "fx_thr" THEN [m EXCEPT !.exc = "callback"]
  ELSE IF l = "fx_rej" THEN Logged(m, "caught", l, o, 0, 0)
  ELSE m

\* One listener call.  onceListener calls the wrapped function and then, when
\* that returned, this.off(event, onceListener).
Invoke(m, l, o, v, i) ==
  LET m1 == Logged(m, "call", l, o, v, i) IN
  IF l \in RcListeners
  THEN LET c == RcTarget(l)
           currentValues == [k \in 1..Len(SourcesOf(c)) |-> Read(m1, SourcesOf(c)[k])]
       IN SetValue(m1, c, transform(c, currentValues))
  ELSE IF l \in OnceListeners
  THEN LET m2 == Body(m1, OnceTarget(l), o)
       IN IF m2.exc = "none" THEN Off(m2, o, l) ELSE m2
  ELSE IF l \in EffectListeners THEN executeCallback(m1, l, o)
  ELSE Body(m1, l, o)

\* ---------------------------------------------------------------- ObservableValue
\* Mutant of the class setter: no equality check, every assignment emits.
C1Mut_ClassSet(m, o, v) == emit([m EXCEPT !.val[o] = v], o, v)

\* set value(newValue) of the class.
ClassSet(m, o, v) ==
  IF v # m.val[o] THEN emit([m EXCEPT !.val[o] = v], o, v) ELSE m

updateValue(m, o, v) ==
  IF v # m.val[o] THEN emit([m EXCEPT !.val[o] = v], o, v) ELSE m

Enqueue(q, o) ==
  IF \E i \in 1..Len(q) : q[i] = o THEN q ELSE Append(q, o)

\* the setter signal() installs with Object.defineProperty.
SignalSet(m, o, v) ==
  IF v # m.cur[o]
  THEN LET m1 == [m EXCEPT !.cur[o] = v]
       IN IF m1.batching
          THEN [m1 EXCEPT !.queue = Enqueue(@, o)]
          ELSE updateValue(m1, o, v)
  ELSE m

\* observable.value = v: the own property shadows the class accessor.
SetValue(m, o, v) == IF wrapped[o] THEN SignalSet(m, o, v) ELSE ClassSet(m, o, v)

\* ---------------------------------------------------------------- effect
RECURSIVE EffectLoop(_, _, _, _)

\* Mutant of the subscription loop: the callback is also run once for every
\* dependency while the effect is created.
C16Mut_EffectLoop(m, kind, deps, i) ==
  IF i > Len(deps) THEN m
  ELSE IF deps[i] = "bad" THEN [m EXCEPT !.exc = "TypeError"]
  ELSE EffectLoop(Logged(On(m, deps[i], FxName(kind)), "call", FxName(kind),
                         deps[i], 0, 0),
                  kind, deps, i + 1)

\* for (const dependency of dependencies): the instanceof check, then subscribe.
EffectLoop(m, kind, deps, i) ==
  IF i > Len(deps) THEN m
  ELSE IF deps[i] = "bad" THEN [m EXCEPT !.exc = "TypeError"]
  ELSE EffectLoop(On(m, deps[i], FxName(kind)), kind, deps, i + 1)

\* Mutant of effect: the callback is run once when the effect is created.
C15Mut_effect(m, kind, isArray, deps) ==
  IF ~isArray THEN [m EXCEPT !.exc = "TypeError"]
  ELSE EffectLoop(Logged(m, "call", FxName(kind), "-", 0, 0), kind, deps, 1)

\* effect(callback, dependencies) up to its return or throw.
effect(m, kind, isArray, deps) ==
  IF ~isArray THEN [m EXCEPT !.exc = "TypeError"]
  ELSE IF Len(deps) = 0 THEN m
  ELSE EffectLoop(m, kind, deps, 1)

RECURSIVE CleanupLoop(_, _, _, _)
CleanupLoop(m, kind, deps, i) ==
  IF i > Len(deps) THEN m
  ELSE CleanupLoop(Off(m, deps[i], FxName(kind)), kind, deps, i + 1)

\* the function effect() returned: every stored detachment function, in order
\* (none when the dependency list was empty).
cleanup(m, kind, deps) == CleanupLoop(m, kind, deps, 1)

\* ---------------------------------------------------------------- batchUpdate
RECURSIVE FlushLoop(_, _)
FlushLoop(m, i) ==
  IF m.exc # "none" \/ i > Len(m.queue) THEN m
  ELSE FlushLoop(updateValue(m, m.queue[i], Read(m, m.queue[i])), i + 1)

\* the finally block: a throw inside the loop skips updateQueue.clear().
BatchFinally(m) ==
  LET m1 == FlushLoop([m EXCEPT !.batching = FALSE], 1)
  IN IF m1.exc = "none" THEN [m1 EXCEPT !.queue = <<>>] ELSE m1

\* batchUpdate(() => { s1.value = v1; s2.value = v2; }) from the try to the end
\* of the finally block (example3.ts 24-27): a listener that throws at the
\* first assignment ends the body.
batchUpdateBoth(m, v1, v2) ==
  LET m1 == SetValue([m EXCEPT !.batching = TRUE], "s1", v1)
      m2 == IF m1.exc = "none" THEN SetValue(m1, "s2", v2) ELSE m1
  IN BatchFinally(m2)

\* ---------------------------------------------------------------- state
\* ---------------------------------------------------------------- Task
\* What the work function can resolve with, and reject with or throw; a
\* rejection reason may be falsy ("undefined").
Results == {"r1", "r2"}
Reasons == {"boom", "undefined"}

Truthy(x) == x # "undefined"

\* The argument lists run() can be given after scope.
ArgVals == {"a", "b"}
ArgLists == UNION {[1..n -> ArgVals] : n \in 0..MaxArgs}

\* Task.create(handler): nothing has run.
\*   pc      where run() is: "new" (not called), "awaiting" (suspended at the
\*           await of catchError), "finished"
\*   work    the promise of the work function: "notcalled", "pending",
\*           "resolved", "rejected", "threw" (it threw before returning one),
\*           or "sleeping" (pending, the function suspended at await sleep())
\*   timer   the timeout of that sleep(): "none", "set", "fired", "cleared"
\*   value   what that promise settled with
\*   future  the promise run() returned: "none", "pending", "resolved",
\*           "rejected"; settled is its value or reason
\*   aborted controller.signal.aborted;  aborts counts the calls of abort()
\*   steps   how many of its MaxSteps steps the work function has executed
\*   trace   history: every event emitted, with _meta, result and future as they
\*           were when it was emitted
\*   calls   history: every invocation of the work function, with the arguments
\*           it was given and the number of events emitted before it
\*   op      history: the last operation on the task
\*   given   history: the arguments run() was called with
\*   abortAt history: the steps the work function had executed when abort was
\*           last called
NewTask ==
  [pc |-> "new", work |-> "notcalled", value |-> "undefined",
   _meta |-> [executed |-> FALSE, has_error |-> FALSE], result |-> "undefined",
   aborted |-> FALSE, aborts |-> 0, future |-> "none", settled |-> "undefined",
   steps |-> 0, trace |-> <<>>, calls |-> <<>>, op |-> "new", given |-> <<>>,
   abortAt |-> 0, timer |-> "none"]

\* this.emit(e, this, arg) on the task.
emitTask(t, e, arg) ==
  [t EXCEPT !.trace = Append(@, [e |-> e, arg |-> arg, _meta |-> t._meta,
                                 result |-> t.result, future |-> t.future])]

\* this.handler.call(scope, ...new_args).
callHandler(t, new_args) ==
  [t EXCEPT !.calls = Append(@, [args |-> new_args, at |-> Len(t.trace)])]

\* Mutant of run: the task is marked as executed before the await.
C31Mut_runStart(t, args, threw, reason) ==
  LET new_args == Append(args, "task")
      t1 == callHandler(emitTask(t, "start", "undefined"), new_args)
  IN IF threw
     THEN [t1 EXCEPT !.pc = "finished", !.work = "threw", !.value = reason,
                     !.future = "rejected", !.settled = reason]
     ELSE [t1 EXCEPT !.pc = "awaiting", !.work = "pending", !.future = "pending",
                     !._meta.executed = TRUE]

\* Mutant of run: the work function is called before start is emitted, and
\* without the task.
C30Mut_runStart(t, args, threw, reason) ==
  LET t1 == emitTask(callHandler(t, args), "start", "undefined")
  IN IF threw
     THEN [t1 EXCEPT !.pc = "finished", !.work = "threw", !.value = reason,
                     !.future = "rejected", !.settled = reason]
     ELSE [t1 EXCEPT !.pc = "awaiting", !.work = "pending", !.future = "pending"]

\* run() up to its await: new_args = [...args, this], emit start, call the work
\* function.  threw says that the work function threw instead of returning a
\* promise: run() is async, so its own promise rejects with what was thrown.
runStart(t, args, threw, reason) ==
  LET new_args == Append(args, "task")
      t1 == callHandler(emitTask(t, "start", "undefined"), new_args)
  IN IF threw
     THEN [t1 EXCEPT !.pc = "finished", !.work = "threw", !.value = reason,
                     !.future = "rejected", !.settled = reason]
     ELSE [t1 EXCEPT !.pc = "awaiting", !.work = "pending", !.future = "pending"]

\* Mutant of run: done is emitted before the result is stored.
C20Mut_runResume(t) ==
  LET error == IF t.work = "rejected" THEN t.value ELSE "undefined"
      result == IF t.work = "resolved" THEN t.value ELSE "undefined"
      t1 == [t EXCEPT !._meta.executed = TRUE, !.pc = "finished"]
  IN IF Truthy(error)
     THEN [emitTask([t1 EXCEPT !._meta.has_error = TRUE], "error", error)
             EXCEPT !.future = "rejected", !.settled = error]
     ELSE [emitTask(t1, "done", result)
             EXCEPT !.result = result, !.future = "resolved", !.settled = result]

\* run() after the await: const [error, result] = (the outcome of catchError),
\* then lines 94-102.  catchError turns a resolution into [undefined, data] and
\* a rejection into [error].
runResume(t) ==
  LET error == IF t.work = "rejected" THEN t.value ELSE "undefined"
      result == IF t.work = "resolved" THEN t.value ELSE "undefined"
      t1 == [t EXCEPT !._meta.executed = TRUE, !.pc = "finished"]
  IN IF Truthy(error)
     THEN [emitTask([t1 EXCEPT !._meta.has_error = TRUE], "error", error)
             EXCEPT !.future = "rejected", !.settled = error]
     ELSE [emitTask([t1 EXCEPT !.result = result], "done", result)
             EXCEPT !.future = "resolved", !.settled = result]

\* Mutant of controller.abort(): the abort listener of sleep() is not called.
C37Mut_controllerAbort(t) == [t EXCEPT !.aborted = TRUE]

\* this.controller.abort(): the first call marks the signal as aborted and
\* dispatches "abort" to its listeners; the one listener there can be is the
\* one sleep() registered, () => clearTimeout(timeout), which removes the timer
\* unless it has fired.  Later calls do nothing.
controllerAbort(t) ==
  IF t.aborted THEN t
  ELSE [t EXCEPT !.aborted = TRUE,
                 !.timer = IF @ = "set" THEN "cleared" ELSE @]

\* Mutant of abort: abort() raises no error event.
C22Mut_abort(t, safe) ==
  LET t1 == [t EXCEPT !._meta.executed = TRUE, !.aborts = @ + 1]
  IN IF safe
     THEN controllerAbort(t1)
     ELSE controllerAbort([t1 EXCEPT !._meta.has_error = TRUE])

\* Mutant of abort: abort cancels the pending work function, whose promise
\* rejects with the abort error.
C25Mut_abort(t, safe) ==
  LET t1 == [t EXCEPT !._meta.executed = TRUE, !.aborts = @ + 1,
                      !.work = IF @ = "pending" THEN "rejected" ELSE @,
                      !.value = IF t.work = "pending" THEN "abborted" ELSE @]
  IN IF safe
     THEN controllerAbort(t1)
     ELSE emitTask(controllerAbort([t1 EXCEPT !._meta.has_error = TRUE]),
                   "error", "abborted")

\* Mutant of abort: abort() marks the error without marking the task executed.
C32Mut_abort(t, safe) ==
  LET t1 == [t EXCEPT !.aborts = @ + 1]
  IN IF safe
     THEN controllerAbort([t1 EXCEPT !._meta.executed = TRUE])
     ELSE emitTask(controllerAbort([t1 EXCEPT !._meta.has_error = TRUE]),
                   "error", "abborted")

\* Mutant of abort: the safe flag is ignored.
C23Mut_abort(t, safe) ==
  LET t1 == [t EXCEPT !._meta.executed = TRUE, !.aborts = @ + 1]
  IN emitTask(controllerAbort([t1 EXCEPT !._meta.has_error = TRUE]),
              "error", "abborted")

\* abort(safe).
abort(t, safe) ==
  LET t1 == [t EXCEPT !._meta.executed = TRUE, !.aborts = @ + 1]
  IN IF safe
     THEN controllerAbort(t1)
     ELSE emitTask(controllerAbort([t1 EXCEPT !._meta.has_error = TRUE]),
                   "error", "abborted")

\* ---------------------------------------------------------------- debounce
\* debounce(func, Delay) has returned the debounced function; nothing has
\* called it.
\*   timeoutId  the closure variable: -1 for undefined (declared with let and
\*              never initialised), 0 for null, otherwise the id of a timer
\*   pending    the timers setTimeout armed that neither fired nor were
\*              cleared: id, the time they are due, the arguments captured
\*   now        the clock
\*   ids        how many timers setTimeout has armed (it hands out 1, 2, ...)
\*   now        the clock
\*   hist       history: the calls of the debounced function and the
\*              invocations of func, in order, each with its time and argument
NewDebounce ==
  [timeoutId |-> -1, pending |-> {}, ids |-> 0, now |-> 0, hist |-> <<>>]

\* The arguments the debounced function is called with.
DebArgs == {"x", "y"}

\* clearTimeout(id): a no-op for undefined and for a timer that is gone.
clearTimeout(d, id) == [d EXCEPT !.pending = {t \in @ : t.id # id}]

\* setTimeout(() => { func(...args); timeoutId = null; }, delay): returns the
\* new id.
setTimeout(d, a) ==
  [d EXCEPT !.ids = @ + 1,
            !.pending = @ \cup {[id |-> d.ids + 1, due |-> d.now + Delay, arg |-> a]}]

\* Mutant of the debounced function: the previous timer is not cleared.
C27Mut_debounced(d, a) ==
  LET d2 == setTimeout(d, a)
  IN [d2 EXCEPT !.timeoutId = d2.ids]

\* The function debounce() returned, called with a.
debounced(d, a) ==
  LET d1 == IF d.timeoutId # 0 THEN clearTimeout(d, d.timeoutId) ELSE d
      d2 == setTimeout(d1, a)
  IN [d2 EXCEPT !.timeoutId = d2.ids]

\* The timer callback of timer t: func(...args); timeoutId = null.
timerCallback(d, t) ==
  [d EXCEPT !.hist = Append(@, [k |-> "func", at |-> d.now, arg |-> t.arg]),
            !.timeoutId = 0,
            !.pending = @ \ {t}]

\* No effect() call has been made.
NoEffect == [st |-> "none", kind |-> "ok", isArray |-> TRUE, deps |-> <<>>]

NoCall == [op |-> "init", o |-> "-", v |-> 0, threw |-> FALSE, exc |-> "none"]

Call(op, o, v, threw, exc) ==
  [op |-> op, o |-> o, v |-> v, threw |-> threw, exc |-> exc]

Init ==
  /\ constructed = [o \in Obs |-> o \in Sources]
  /\ wrapped \in {w \in [Obs -> BOOLEAN] : \A c \in Computeds : ~w[c]}
  /\ _value = [o \in Obs |-> 0]
  /\ currentValue = [o \in Obs |-> 0]
  /\ _listeners = [o \in Obs |-> <<>>]
  /\ hasKey = [o \in Obs |-> FALSE]
  /\ updateQueue = <<>>
  /\ isBatching = FALSE
  /\ depth = 0
  /\ written = {}
  /\ deb = NewDebounce
  /\ released = {}
  /\ handles = <<>>
  /\ fx = NoEffect
  /\ task = NewTask
  /\ last = NoCall
  /\ log = <<>>

\* Write the heap of a finished call back to the state.
Commit(m) ==
  /\ _value' = m.val
  /\ currentValue' = m.cur
  /\ _listeners' = [o \in Obs |-> ListenersOf(m, o)]
  /\ hasKey' = [o \in Obs |-> m.map[o] # 0]
  /\ updateQueue' = m.queue
  /\ isBatching' = m.batching
  /\ log' = m.log
  /\ released' = released \cup
                   {m.log[k].o : k \in {j \in 1..Len(m.log) : m.log[j].t = "unsub"}}

Occurrences(seq, l) == Cardinality({k \in 1..Len(seq) : seq[k] = l})

InQueue(q, o) == \E i \in 1..Len(q) : q[i] = o

UserCount ==
  LET n(o) == Len(SelectSeq(_listeners[o], LAMBDA x : x \in UserListeners))
  IN n("s1") + n("s2") + n("c1") + n("c2")

\* ---------------------------------------------------------------- actions
\* source.value = v, made by user code (inside or outside a batchUpdate body).
Write(o, v) ==
  /\ o \in Sources
  /\ LET m == SetValue(Start, o, v) IN
       /\ Commit(m)
       /\ written' = IF depth > 0
                     THEN written \cup {x \in Obs : InQueue(m.queue, x)
                                                    /\ ~InQueue(updateQueue, x)}
                     ELSE written
       /\ last' = Call("write", o, v, FALSE, m.exc)
  /\ UNCHANGED <<constructed, wrapped, depth, deb, handles, fx, task>>

\* c = computed(sources, transform), optionally passed straight to signal().
Computed(c, wrap) ==
  /\ c \in Computeds
  /\ ~constructed[c]
  /\ \A i \in 1..Len(SourcesOf(c)) : constructed[SourcesOf(c)[i]]
  /\ LET src == SourcesOf(c)
         initialValues == [i \in 1..Len(src) |-> Read(Start, src[i])]
         initial == transform(c, initialValues)
         m1 == [Start EXCEPT !.val[c] = initial,
                             !.cur[c] = IF wrap THEN initial ELSE 0]
         m2 == IF Len(src) = 2
               THEN On(On(m1, src[1], RcName(c, 1)), src[2], RcName(c, 2))
               ELSE On(m1, src[1], RcName(c, 1))
     IN Commit(m2)
  /\ constructed' = [constructed EXCEPT ![c] = TRUE]
  /\ wrapped' = [wrapped EXCEPT ![c] = wrap]
  /\ last' = Call("computed", c, 0, FALSE, "none")
  /\ UNCHANGED <<depth, written, deb, handles, fx, task>>

\* observable.subscribe(l) / effect(l, [observable]) for a user function l.
Subscribe(o, l) ==
  /\ constructed[o]
  /\ l \in UserListeners
  /\ UserCount < MaxSubs
  /\ Commit(On(Start, o, l))
  /\ last' = Call("subscribe", o, 0, FALSE, "none")
  /\ UNCHANGED <<constructed, wrapped, depth, written, deb, handles, fx, task>>

\* the detachment function subscribe() returned for (o, l).
Unsubscribe(o, l) ==
  /\ l \in UserListeners
  /\ \E i \in 1..Len(_listeners[o]) : _listeners[o][i] = l
  /\ Commit(Off(Start, o, l))
  /\ last' = Call("unsubscribe", o, 0, FALSE, "none")
  /\ UNCHANGED <<constructed, wrapped, depth, written, deb, handles, fx, task>>

\* c.unsubscribeSources() called by user code between writes.
UnsubscribeSources(c) ==
  /\ c \in Computeds
  /\ constructed[c]
  /\ Commit(unsubscribeSources(Start, c))
  /\ last' = Call("unsubscribeSources", c, 0, FALSE, "none")
  /\ UNCHANGED <<constructed, wrapped, depth, written, deb, handles, fx, task>>

\* batchUpdate(updateFn): the try block up to the call of updateFn.
BatchEnter ==
  /\ depth < MaxDepth
  /\ isBatching' = TRUE
  /\ depth' = depth + 1
  /\ written' = IF depth = 0 THEN {} ELSE written
  /\ last' = Call("batchEnter", "-", 0, FALSE, "none")
  /\ log' = <<>>
  /\ UNCHANGED <<constructed, wrapped, _value, currentValue, _listeners, hasKey,
                 updateQueue, released, deb, handles, fx, task>>

\* updateFn returns (threw = FALSE) or throws (threw = TRUE): the finally block
\* runs, then the caller of batchUpdate sees last'.exc.
BatchExit(threw) ==
  /\ depth > 0
  /\ LET m == BatchFinally(Start) IN
       /\ Commit(m)
       /\ last' = Call("batchExit", "-", 0, threw,
                       IF m.exc # "none" THEN m.exc
                       ELSE IF threw THEN "body" ELSE "none")
  /\ depth' = depth - 1
  /\ UNCHANGED <<constructed, wrapped, written, deb, handles, fx, task>>

\* emitter.on("change", l) on the emitter of o.
AddListener(o, l) ==
  /\ constructed[o]
  /\ l \in EmitterListeners \cup ReentryListeners \cup NestedListeners
  /\ Len(_listeners[o]) < MaxListeners
  /\ Commit(On(Start, o, l))
  /\ last' = Call("on", o, 0, FALSE, "none")
  /\ UNCHANGED <<constructed, wrapped, depth, written, deb, handles, fx, task>>

\* emitter.off("change", l), whether or not l is registered.
RemoveListener(o, l) ==
  /\ constructed[o]
  /\ l \in EmitterListeners
  /\ Commit(Off(Start, o, l))
  /\ last' = Call("off", o, 0, FALSE, "none")
  /\ UNCHANGED <<constructed, wrapped, depth, written, deb, handles, fx, task>>

\* observable.subscribeOnce(l) = emitter.once("change", l): a fresh onceListener
\* closure is registered (one closure per wrapped function is kept in play).
SubscribeOnce(o, l) ==
  /\ constructed[o]
  /\ l \in OnceInner
  /\ Len(_listeners[o]) < MaxListeners
  /\ \A x \in Obs : Occurrences(_listeners[x], OnceName(l)) = 0
  /\ Commit(On(Start, o, OnceName(l)))
  /\ last' = Call("subscribeOnce", o, 0, FALSE, "none")
  /\ UNCHANGED <<constructed, wrapped, depth, written, deb, handles, fx, task>>

\* emitter.removeAllListeners("change") or emitter.removeAllListeners().
RemoveAllListeners(o) ==
  /\ constructed[o]
  /\ Commit(removeAllListeners(Start, o))
  /\ last' = Call("removeAllListeners", o, 0, FALSE, "none")
  /\ UNCHANGED <<constructed, wrapped, depth, written, deb, handles, fx, task>>

\* emitter.emit("change", v) called directly; ret is what it returns when no
\* listener throws.
Emit(o, v) ==
  /\ constructed[o]
  /\ LET m == emit(Start, o, v) IN
       /\ Commit(m)
       /\ last' = [op |-> "emit", o |-> o, v |-> v, threw |-> FALSE, exc |-> m.exc,
                   ret |-> emitReturn(Start, o)]
  /\ UNCHANGED <<constructed, wrapped, depth, written, deb, handles, fx, task>>

\* detach = observable.subscribe(l), the returned detachment function is kept.
SubscribeKeep(o, l) ==
  /\ constructed[o]
  /\ Len(handles) < MaxHandles
  /\ Len(_listeners[o]) < MaxListeners
  /\ Commit(On(Start, o, l))
  /\ handles' = Append(handles, [o |-> o, l |-> l, calls |-> 0])
  /\ last' = Call("subscribe", o, 0, FALSE, "none")
  /\ UNCHANGED <<constructed, wrapped, depth, written, deb, fx, task>>

\* detach(): () => this._emitter.off("change", listener), for the h-th function
\* kept; last'.v tells how many times it had been called before (2 = more).
Detach(h) ==
  /\ h \in 1..Len(handles)
  /\ LET m == Off(Start, handles[h].o, handles[h].l) IN
       /\ Commit(m)
       /\ last' = Call("detach", handles[h].o, handles[h].calls, FALSE, m.exc)
  /\ handles' = [handles EXCEPT ![h].calls = IF @ < 2 THEN @ + 1 ELSE 2]
  /\ UNCHANGED <<constructed, wrapped, depth, written, deb, fx, task>>

\* stop = effect(callback, dependencies); isArray = FALSE stands for a
\* dependencies argument that is not an array.
Effect(kind, isArray, deps) ==
  /\ fx.st = "none"
  /\ isArray \/ deps = <<>>
  /\ LET m == effect(Start, kind, isArray, deps) IN
       /\ Commit(m)
       /\ fx' = [st |-> IF m.exc = "none" THEN "active" ELSE "failed",
                 kind |-> kind, isArray |-> isArray, deps |-> deps]
       /\ last' = Call("effect", "-", 0, FALSE, m.exc)
  /\ UNCHANGED <<constructed, wrapped, depth, written, deb, handles, task>>

\* stop(), the function effect() returned, called for the first or a later time.
Cleanup ==
  /\ fx.st \in {"active", "cleaned"}
  /\ LET m == cleanup(Start, fx.kind, fx.deps) IN
       /\ Commit(m)
       /\ last' = Call("cleanup", "-", 0, FALSE, m.exc)
  /\ fx' = [fx EXCEPT !.st = "cleaned"]
  /\ UNCHANGED <<constructed, wrapped, depth, written, deb, handles, task>>

\* effect(callback, [c1]) on the computed value (example3.ts 19-21).
ExampleEffect(kind) ==
  /\ constructed["c1"]
  /\ Effect(kind, TRUE, <<"c1">>)

\* batchUpdate(() => { s1.value = v1; s2.value = v2; }), the whole call.
BatchUpdateBoth(v1, v2) ==
  /\ depth = 0
  /\ LET m == batchUpdateBoth(Start, v1, v2) IN
       /\ Commit(m)
       /\ last' = Call("batchUpdateBoth", "-", 0, FALSE, m.exc)
  /\ UNCHANGED <<constructed, wrapped, depth, written, deb, handles, fx, task>>

\* What the debounce actions leave alone.
nonDebounceVars ==
  <<constructed, wrapped, _value, currentValue, _listeners, hasKey, updateQueue,
    isBatching, depth, written, released, handles, fx, task, last, log>>

\* User code calls the debounced function with a.
DebouncedCall(a) ==
  /\ deb.ids < MaxCalls
  /\ deb' = [debounced(deb, a)
               EXCEPT !.hist = Append(@, [k |-> "call", at |-> deb.now, arg |-> a])]
  /\ UNCHANGED nonDebounceVars

\* The event loop runs the callback of a timer that is due.
TimerFire ==
  /\ \E t \in deb.pending :
       /\ t.due <= deb.now
       /\ deb' = timerCallback(deb, t)
  /\ UNCHANGED nonDebounceVars

\* Time passes; a due timer is run at most MaxLate ticks late.
Tick ==
  /\ deb.now < MaxTime
  /\ \A t \in deb.pending : deb.now < t.due + MaxLate
  /\ deb' = [deb EXCEPT !.now = @ + 1]
  /\ UNCHANGED nonDebounceVars

\* What the Task actions leave alone.
reactiveVars ==
  <<constructed, wrapped, _value, currentValue, _listeners, hasKey, updateQueue,
    isBatching, depth, written, deb, released, handles, fx, last, log>>

\* task.run(scope, ...args), called once: everything up to the await.
TaskRun(args, threw, reason) ==
  /\ task.pc = "new"
  /\ threw \/ reason = "undefined"
  /\ task' = [runStart(task, args, threw, reason) EXCEPT !.op = "run",
                                                         !.given = args]
  /\ UNCHANGED reactiveVars

\* task.run(scope, ...args) with a work function that has no step to wait for:
\* the promise it returns is already settled (how = "resolved" or "rejected",
\* with v) when run() reaches its await, which suspends run() all the same.
TaskRunSettled(args, how, v) ==
  /\ task.pc = "new"
  /\ \/ how = "resolved" /\ v \in Results
     \/ how = "rejected" /\ v \in Reasons
  /\ task' = [runStart(task, args, FALSE, "undefined")
               EXCEPT !.op = "run", !.given = args, !.work = how, !.value = v]
  /\ UNCHANGED reactiveVars

\* The work function, which never looks at the cancellation token, executes
\* its next step.
WorkStep ==
  /\ task.work = "pending"
  /\ task.steps < MaxSteps
  /\ task' = [task EXCEPT !.steps = @ + 1, !.op = "step"]
  /\ UNCHANGED reactiveVars

\* The work function has executed all its steps: the promise it returned
\* resolves.
WorkResolve(r) ==
  /\ task.work = "pending"
  /\ task.steps = MaxSteps
  /\ task' = [task EXCEPT !.work = "resolved", !.value = r, !.op = "resolve"]
  /\ UNCHANGED reactiveVars

\* The work function fails at any of its steps: the promise it returned
\* rejects.
WorkReject(reason) ==
  /\ task.work = "pending"
  /\ task' = [task EXCEPT !.work = "rejected", !.value = reason, !.op = "reject"]
  /\ UNCHANGED reactiveVars

\* task.run(scope, ...args) with a work function whose first statement is
\* await sleep(d, { signal: task.signal }): sleep sets the timeout and adds its
\* abort listener to the signal (which never calls it if the signal is already
\* aborted), and the work function is suspended on the promise of sleep.
TaskRunSleep(args) ==
  /\ task.pc = "new"
  /\ task' = [runStart(task, args, FALSE, "undefined")
               EXCEPT !.op = "run", !.given = args,
                      !.work = "sleeping", !.timer = "set"]
  /\ UNCHANGED reactiveVars

\* The timeout of sleep() fires: resolve() settles its promise and the work
\* function goes on with its steps.
SleepElapsed ==
  /\ task.timer = "set"
  /\ task.work = "sleeping"
  /\ task' = [task EXCEPT !.timer = "fired", !.work = "pending", !.op = "wake"]
  /\ UNCHANGED reactiveVars

\* A later scheduler turn: run() resumes after its await.
TaskResume ==
  /\ task.pc = "awaiting"
  /\ task.work \in {"resolved", "rejected"}
  /\ task' = [runResume(task) EXCEPT !.op = "resume"]
  /\ UNCHANGED reactiveVars

\* task.abort(safe), at any moment.
TaskAbort(safe) ==
  /\ task.aborts < MaxAborts
  /\ task' = [abort(task, safe) EXCEPT !.op = IF safe THEN "abortSafe" ELSE "abort",
                                       !.abortAt = task.steps]
  /\ UNCHANGED reactiveVars

\* ---------------------------------------------------------------- specifications
\* Propagation outside batchUpdate: construction of the computed values,
\* subscriptions, detachments and plain writes, in any order.
Next ==
  \/ \E o \in Sources, v \in Values : Write(o, v)
  \/ \E c \in Computeds, wrap \in BOOLEAN : Computed(c, wrap)
  \/ \E o \in Obs, l \in UserListeners : Subscribe(o, l)
  \/ \E o \in Obs, l \in UserListeners : Unsubscribe(o, l)
  \/ \E c \in Computeds : UnsubscribeSources(c)

Spec == Init /\ [][Next]_vars

\* batchUpdate: c1 = computed([s1, s2], transform) exists from the start (passed
\* to signal() or not), user code subscribes listeners, writes the sources and
\* enters and leaves batchUpdate bodies, nested up to MaxDepth.
InitBatch ==
  /\ constructed = [o \in Obs |-> o # "c2"]
  /\ wrapped \in {w \in [Obs -> BOOLEAN] : ~w["c2"]}
  /\ _value = [o \in Obs |-> 0]
  /\ currentValue = [o \in Obs |-> 0]
  /\ _listeners = [o \in Obs |-> IF o = "s1" THEN <<"rc_c1_1">>
                                 ELSE IF o = "s2" THEN <<"rc_c1_2">> ELSE <<>>]
  /\ hasKey = [o \in Obs |-> o \in Sources]
  /\ updateQueue = <<>>
  /\ isBatching = FALSE
  /\ depth = 0
  /\ written = {}
  /\ deb = NewDebounce
  /\ released = {}
  /\ handles = <<>>
  /\ fx = NoEffect
  /\ task = NewTask
  /\ last = NoCall
  /\ log = <<>>

NextBatch ==
  \/ \E o \in Sources, v \in Values : Write(o, v)
  \/ \E o \in Obs, l \in {"rec", "thr"} : Subscribe(o, l)
  \/ BatchEnter
  \/ \E threw \in BOOLEAN : BatchExit(threw)

SpecBatch == InitBatch /\ [][NextBatch]_vars

\* The emitter of one plain observable exercised directly: on, off, once,
\* removeAllListeners and emit in any order, and assignments to the observable.
EmitterObs == {"s1"}

InitEmitter ==
  /\ constructed = [o \in Obs |-> o \in Sources]
  /\ wrapped = [o \in Obs |-> FALSE]
  /\ _value = [o \in Obs |-> 0]
  /\ currentValue = [o \in Obs |-> 0]
  /\ _listeners = [o \in Obs |-> <<>>]
  /\ hasKey = [o \in Obs |-> FALSE]
  /\ updateQueue = <<>>
  /\ isBatching = FALSE
  /\ depth = 0
  /\ written = {}
  /\ deb = NewDebounce
  /\ released = {}
  /\ handles = <<>>
  /\ fx = NoEffect
  /\ task = NewTask
  /\ last = NoCall
  /\ log = <<>>

NextEmitter ==
  \/ \E o \in EmitterObs, l \in EmitterListeners : AddListener(o, l)
  \/ \E o \in EmitterObs, l \in EmitterListeners : RemoveListener(o, l)
  \/ \E o \in EmitterObs, l \in OnceInner : SubscribeOnce(o, l)
  \/ \E o \in EmitterObs : RemoveAllListeners(o)
  \/ \E o \in EmitterObs, v \in Values : Emit(o, v)
  \/ \E o \in EmitterObs, v \in Values : Write(o, v)

SpecEmitter == InitEmitter /\ [][NextEmitter]_vars

\* Registration from inside a listener: listeners that register another
\* listener, or remove themselves, on the emitter that is calling them.
InitReentry == InitEmitter

\* Rounds are started while the registrations they can add still fit in
\* MaxListeners.
HasRoom(o) ==
  Len(_listeners[o]) + Occurrences(_listeners[o], "add") <= MaxListeners

NextReentry ==
  \/ \E o \in EmitterObs, l \in ReentryListeners : AddListener(o, l)
  \/ \E o \in EmitterObs : RemoveAllListeners(o)
  \/ \E o \in EmitterObs, v \in Values : HasRoom(o) /\ Emit(o, v)
  \/ \E o \in EmitterObs, v \in Values : HasRoom(o) /\ Write(o, v)

SpecReentry == InitReentry /\ [][NextReentry]_vars

\* Writes to an observable whose listeners may themselves write to it: "wr"
\* assigns 0 to the observable it listens to, "rec" only records its argument.
InitNested == InitEmitter

NextNested ==
  \/ \E o \in Sources, l \in NestedListeners : AddListener(o, l)
  \/ \E o \in Sources : RemoveAllListeners(o)
  \/ \E o \in Sources, v \in Values : Write(o, v)

SpecNested == InitNested /\ [][NextNested]_vars

\* Detachment functions: user code subscribes plain listeners to the sources,
\* keeps every detachment function and calls them in any order, any number of
\* times, between assignments.
InitDetach == InitEmitter

NextDetach ==
  \/ \E o \in Sources, l \in {"rec", "thr"} : SubscribeKeep(o, l)
  \/ \E h \in 1..MaxHandles : Detach(h)
  \/ \E o \in Sources, v \in Values : Write(o, v)

SpecDetach == InitDetach /\ [][NextDetach]_vars

\* effect(): one effect is created over any dependency list (valid or not) with
\* a callback that returns, throws or rejects; plain listeners are subscribed to
\* the sources before or after it, the sources are assigned, the effect is
\* stopped.
InitEffect == InitEmitter

NextEffect ==
  \/ \E kind \in EffectKinds, isArray \in BOOLEAN, deps \in DepLists :
       Effect(kind, isArray, deps)
  \/ Cleanup
  \/ \E o \in Sources : AddListener(o, "rec")
  \/ \E o \in Sources, v \in Values : Write(o, v)

SpecEffect == InitEffect /\ [][NextEffect]_vars

\* One Task: run() is called once, the work function settles in any way, and
\* user code calls abort() at any moment, before, during or after the run.
InitTask == InitEmitter

NextTask ==
  \/ \E args \in ArgLists, threw \in BOOLEAN, reason \in Reasons :
       TaskRun(args, threw, reason)
  \/ \E args \in ArgLists, how \in {"resolved", "rejected"},
        v \in Results \cup Reasons : TaskRunSettled(args, how, v)
  \/ WorkStep
  \/ \E r \in Results : WorkResolve(r)
  \/ \E reason \in Reasons : WorkReject(reason)
  \/ TaskResume
  \/ \E safe \in BOOLEAN : TaskAbort(safe)

SpecTask == InitTask /\ [][NextTask]_vars

\* One Task whose work function sleeps on the task's signal before its steps:
\* run() is called once and user code calls abort() at any moment.
InitSleep == InitEmitter

NextSleep ==
  \/ \E args \in ArgLists : TaskRunSleep(args)
  \/ SleepElapsed
  \/ WorkStep
  \/ \E r \in Results : WorkResolve(r)
  \/ \E reason \in Reasons : WorkReject(reason)
  \/ TaskResume
  \/ \E safe \in BOOLEAN : TaskAbort(safe)

SpecSleep == InitSleep /\ [][NextSleep]_vars

\* example3.ts: two sources constructed directly, c1 = computed([s1, s2], ...)
\* passed to signal() or not, an effect on c1, then plain writes and batchUpdate
\* calls whose body assigns both sources.
InitExample == InitEmitter

NextExample ==
  \/ \E o \in Sources, v \in Values : Write(o, v)
  \/ \E wrap \in BOOLEAN : Computed("c1", wrap)
  \/ \E kind \in EffectKinds : ExampleEffect(kind)
  \/ Cleanup
  \/ \E v1 \in Values, v2 \in Values : BatchUpdateBoth(v1, v2)

SpecExample == InitExample /\ [][NextExample]_vars

\* debounce(func, Delay): calls of the debounced function at any time, the
\* clock, and the timers firing when due or a little late.
InitDebounce == InitEmitter

NextDebounce ==
  \/ \E a \in DebArgs : DebouncedCall(a)
  \/ TimerFire
  \/ Tick

SpecDebounce == InitDebounce /\ [][NextDebounce]_vars

\* ---------------------------------------------------------------- properties
Calls(lg, l, o) ==
  Cardinality({k \in 1..Len(lg) : lg[k].t = "call" /\ lg[k].l = l /\ lg[k].o = o})

\* Listeners of observable c were called after position p of the log.
NotifiedAfter(lg, p, c) ==
  \E k \in (p + 1)..Len(lg) : lg[k].t = "call" /\ lg[k].o = c

\* get value() in the state a step leads to.
ReadNext(o) == IF wrapped'[o] THEN currentValue'[o] ELSE _value'[o]

Changed(o) == ReadNext(o) # Read(Start, o)

Fresh(c, view) ==
  view[c] = transform(c, [n \in 1..Len(SourcesOf(c)) |-> view[SourcesOf(c)[n]]])

\* C1: an assignment made outside a batch delivers one change notification to a
\* subscribed listener (one per registration) exactly when the assigned value
\* differs from the value the observable held just before, so over any sequence
\* of assignments the notifications delivered equal the assignments that differ;
\* an assignment of the identical value calls nothing and changes nothing.  (A
\* round cut short by a listener that throws is the subject of C19.)
C1_EqualitySuppression ==
  [][\A o \in Sources, l \in UserListeners :
       (/\ last'.op = "write" /\ last'.o = o
        /\ ~isBatching
        /\ Occurrences(_listeners[o], l) > 0)
       => IF last'.v = Read(Start, o)
          THEN /\ log' = <<>> /\ last'.exc = "none"
               /\ UNCHANGED <<_value, currentValue, _listeners, updateQueue>>
          ELSE last'.exc = "none"
                 => Calls(log', l, o) = Occurrences(_listeners[o], l)]_vars

\* C1 witness: a listener is subscribed to a source and the last step assigned
\* the value the source already held: nothing was delivered.
C1_Witness ==
  /\ last.op = "write" /\ last.v = 1 /\ log = <<>>
  /\ Occurrences(_listeners[last.o], "rec") > 0

\* C7: during a write made outside a batch, every user listener of a source that
\* was registered after the computed value's recomputation listener finds, when
\* it is called, the computed value equal to transform of the sources' current
\* values.
C7_ComputedFreshForLaterListeners ==
  [][(last'.op = "write" /\ ~isBatching) =>
       \A k \in 1..Len(log') :
         LET e == log'[k] IN
           (e.t = "call" /\ e.l \in UserListeners) =>
             \A c \in Computeds : \A j \in 1..Len(SourcesOf(c)) :
               (/\ SourcesOf(c)[j] = e.o
                /\ \E p \in 1..(e.i - 1) :
                     p <= Len(_listeners[e.o]) /\ _listeners[e.o][p] = RcName(c, j))
               => Fresh(c, e.view)]_vars

\* C7 witness: the last write changed s1; rec, registered on s1 after c1 was
\* constructed, was called and saw c1 already recomputed to 1.
C7_Witness ==
  /\ last.op = "write" /\ last.o = "s1"
  /\ Len(_listeners["s1"]) >= 2 /\ _listeners["s1"][1] = "rc_c1_1"
  /\ \E k \in 1..Len(log) :
       /\ log[k].t = "call" /\ log[k].l = "rec" /\ log[k].o = "s1"
       /\ log[k].view["c1"] = 1

\* C8: when a write made outside a batch returns without an exception, every
\* computed value reached by the change (one of its sources changed in this
\* call, its source subscriptions not released) equals transform of its sources'
\* current values, and every user listener registered on an observable that
\* changed has been called: nothing is left for a later turn.
C8_SynchronousPropagation ==
  [][(last'.op = "write" /\ ~isBatching /\ last'.exc = "none") =>
       /\ \A c \in Computeds :
            (/\ constructed[c] /\ c \notin released
             /\ \E j \in 1..Len(SourcesOf(c)) : Changed(SourcesOf(c)[j]))
            => Fresh(c, [o \in Obs |-> ReadNext(o)])
       /\ \A o \in Obs, l \in UserListeners :
            (Occurrences(_listeners[o], l) > 0 /\ Changed(o))
            => Calls(log', l, o) >= 1]_vars

\* C8 witness: one write to a source ran through c1 and c2 and reached rec,
\* registered on c2, before it returned.
C8_Witness ==
  /\ last.op = "write" /\ last.exc = "none"
  /\ \E k \in 1..Len(log) :
       log[k].t = "call" /\ log[k].l = "rec" /\ log[k].o = "c2"

\* No registered listener throws.
NoThrower == \A o \in Obs : Occurrences(_listeners[o], "thr") = 0

\* C2 as claimed: a batch-aware observable written (each time with a value that
\* differs) inside one batchUpdate body delivers nothing while the body runs and
\* exactly one notification, carrying the last value written, at batch close,
\* also when that last value is the value held before the batch.  (Stated for a
\* batchUpdate that is not nested and whose listeners do not throw.)
C2_OneNotificationAtClose ==
  [][\A o \in Sources :
       /\ (last'.op = "write" /\ last'.o = o /\ wrapped[o] /\ depth = 1 /\ isBatching)
            => ~NotifiedAfter(log', 0, o)
       /\ (/\ last'.op = "batchExit" /\ depth = 1 /\ isBatching /\ NoThrower
           /\ o \in written /\ wrapped[o] /\ Occurrences(_listeners[o], "rec") = 1)
            => /\ Calls(log', "rec", o) = 1
               /\ \A k \in 1..Len(log') :
                    (log'[k].t = "call" /\ log'[k].l = "rec" /\ log'[k].o = o)
                    => log'[k].arg = currentValue[o]]_vars

\* C3 as claimed: while a batch is open a write to any observable (constructed
\* directly, returned by computed or by signal) is seen at once by a read and
\* delivers no change notification before the batch closes.
C3_AnyWriteDeferredInBatch ==
  [][(last'.op = "write" /\ isBatching) =>
       /\ ReadNext(last'.o) = last'.v
       /\ \A k \in 1..Len(log') : log'[k].t # "call"]_vars

\* C4 as claimed: right after batchUpdate exits, by whatever path (return, throw
\* of the body, throw of a listener during the flush), isBatching is false and
\* updateQueue is empty.
C4_ReleasedOnEveryExit ==
  last.op = "batchExit" => (~isBatching /\ updateQueue = <<>>)

\* C5 as claimed: a batchUpdate called inside a batchUpdate body delivers nothing
\* when it finishes and leaves isBatching set, and writes made in the outer body
\* afterwards are still deferred to the close of the outermost batchUpdate.
C5_NestedBatchCollapses ==
  [][/\ (last'.op = "batchExit" /\ depth >= 2) =>
          /\ isBatching'
          /\ updateQueue' = updateQueue
          /\ \A k \in 1..Len(log') : log'[k].t # "call"
     /\ (last'.op = "write" /\ depth >= 1 /\ wrapped[last'.o]) =>
          ~NotifiedAfter(log', 0, last'.o)]_vars

\* C6 as claimed: when the body throws after writing batch-aware observables,
\* every observable written before the throw delivers its pending notification
\* before batchUpdate exits, and the caller sees the body's exception.  (Stated
\* for a batchUpdate that is not nested and whose listeners do not throw.)
C6_FlushBeforeRethrow ==
  [][(/\ last'.op = "batchExit" /\ last'.threw
      /\ depth = 1 /\ isBatching /\ NoThrower) =>
       /\ last'.exc = "body"
       /\ \A o \in written : \A l \in UserListeners :
            (wrapped[o] /\ Occurrences(_listeners[o], l) > 0)
            => Calls(log', l, o) >= 1]_vars

\* C9 as claimed: a recomputation whose result is the value the computed value
\* already returns notifies no listener of the computed value, and a
\* recomputation made while a batch is open notifies them only when the batch
\* closes, whether or not the computed value was passed to signal().
C9_RecomputationUsesBatchedWritePath ==
  [][\A p \in 1..Len(log') :
       LET e == log'[p] IN
         (e.t = "call" /\ e.l \in RcListeners) =>
           LET c == RcTarget(e.l) IN
             /\ Fresh(c, e.view) =>
                  ~(/\ p < Len(log')
                    /\ log'[p + 1].t = "call" /\ log'[p + 1].o = c)
             /\ e.batching => ~NotifiedAfter(log', p, c)]_vars

\* C10 as claimed: once unsubscribeSources() of a computed value has returned, no
\* later step changes the computed value or calls its listeners, whether the call
\* was made between writes or by a listener in the middle of an emission round.
C10_NeverUpdatesAfterUnsubscribe ==
  [][\A c \in Computeds :
       /\ c \in released =>
            /\ ReadNext(c) = Read(Start, c) /\ _value'[c] = _value[c]
            /\ ~NotifiedAfter(log', 0, c)
       /\ \A p \in 1..Len(log') :
            (log'[p].t = "unsub" /\ log'[p].o = c) =>
              /\ ReadNext(c) = log'[p].view[c]
              /\ ~NotifiedAfter(log', p, c)]_vars

\* C10 amended: once unsubscribeSources() has returned and the top-level call it
\* was made in (with every emission round then in progress) has ended, no later
\* write to the sources changes the computed value or calls its listeners.
C10_StaleAfterRoundsEnd ==
  [][\A c \in Computeds :
       c \in released =>
         /\ ReadNext(c) = Read(Start, c) /\ _value'[c] = _value[c]
         /\ ~NotifiedAfter(log', 0, c)]_vars

\* C10 witness: c1 was released and a later write changed a source, so c1 no
\* longer equals transform of its sources.
C10_Witness ==
  /\ "c1" \in released /\ last.op = "write"
  /\ ~Fresh("c1", ReadAll(Start))

\* C11: an emit that no listener cuts short by throwing calls the listeners
\* registered for the key when it starts, once per registration, in registration
\* order, each with the arguments of the emit, and returns true exactly when at
\* least one listener is registered (false again once off or removeAllListeners
\* removed the last one).  (Rounds in which a listener writes the observable,
\* starting a nested round, are the subject of C14 and C36.)
C11_EmitInOrderAndReturn ==
  [][(/\ last'.op = "emit" /\ last'.exc = "none"
      /\ Occurrences(_listeners[last'.o], "once_wr") = 0) =>
       LET ls == _listeners[last'.o] IN
         /\ Len(log') = Len(ls)
         /\ \A k \in 1..Len(ls) :
              /\ log'[k].t = "call" /\ log'[k].l = ls[k]
              /\ log'[k].o = last'.o /\ log'[k].arg = last'.v
         /\ last'.ret = (Len(ls) > 0)]_vars

\* C11 witness: an emit called two different listeners, in order, and returned
\* true.
C11_Witness ==
  /\ last.op = "emit" /\ last.exc = "none" /\ last.ret
  /\ Len(log) >= 2 /\ log[1].l # log[2].l

\* Listeners that remove a listener of the key they are called for.
Removers == {"rmv", "rmr", "once_rec"}

\* What the removers among ls remove.
RemovedBy(ls) ==
  {l \in {"rmv", "rec", "once_rec"} :
     \/ l = "rmv" /\ Occurrences(ls, "rmv") > 0
     \/ l = "rec" /\ Occurrences(ls, "rmr") > 0
     \/ l = "once_rec" /\ Occurrences(ls, "once_rec") > 0}

\* C12: when listeners of the key being emitted remove themselves or another
\* listener of that key (with off, or as onceListener does), nothing is thrown,
\* every listener registered when the round started is called exactly once per
\* registration in that round, and afterwards the removed listeners are gone.
\* (Stated for rounds none of whose listeners throws or writes the observable.)
C12_RemovalDuringEmission ==
  [][\A o \in Obs :
       LET ls == _listeners[o] IN
         (/\ last'.o = o
          /\ \/ last'.op = "emit"
             \/ last'.op = "write" /\ last'.v # _value[o]
          /\ \E k \in 1..Len(ls) : ls[k] \in Removers
          /\ \A k \in 1..Len(ls) : ls[k] \notin {"thr", "once_thr", "once_wr"})
         => /\ last'.exc = "none"
            /\ \A l \in EmitterListeners \cup OnceListeners :
                 Calls(log', l, o) = Occurrences(ls, l)
            /\ _listeners'[o] = SelectSeq(ls, LAMBDA x : x \notin RemovedBy(ls))]_vars

\* C12 witness: rmv, registered before rec, removed itself during the round; rec
\* was still called after it and rmv is no longer registered.
C12_Witness ==
  /\ last.op = "emit" /\ last.exc = "none"
  /\ Len(log) >= 2 /\ log[1].l = "rmv" /\ log[2].l = "rec"
  /\ Occurrences(_listeners[last.o], "rmv") = 0
  /\ Occurrences(_listeners[last.o], "rec") > 0
\* C13 as claimed: a second or later call of a detachment function subscribe
\* returned throws nothing and leaves the listeners registered on the observable
\* as they were, also when the same function was subscribed again meanwhile.
C13_SecondDetachIsNoOp ==
  [][(last'.op = "detach" /\ last'.v >= 1) =>
       (last'.exc = "none" /\ _listeners' = _listeners)]_vars
\* C14 as claimed: a listener registered with subscribeOnce is called at most
\* once and is no longer registered after its first call, also when it writes
\* the observable while it runs and when it throws: a step in which it is called
\* calls it exactly once and leaves it unregistered (so no later step calls it).
C14_OnceListenerRunsOnce ==
  [][\A o \in Obs, w \in OnceListeners :
       (last'.op = "write" /\ Calls(log', w, o) >= 1)
       => (Calls(log', w, o) = 1 /\ Occurrences(_listeners'[o], w) = 0)]_vars
\* Calls of the effect's callback in a log.
FxCalls(lg) ==
  Cardinality({k \in 1..Len(lg) : lg[k].t = "call" /\ lg[k].l \in EffectListeners})

\* The effect's executeCallback is registered on no observable after the step.
FxUnregistered ==
  \A o \in Obs : \A k \in 1..Len(_listeners'[o]) : _listeners'[o][k] \notin EffectListeners

\* C15: effect(callback, []) registers no listener, its callback is called
\* neither when the effect is created nor by any later step, and the function
\* it returns changes nothing and throws nothing however often it is called.
C15_EmptyEffectIsInert ==
  [][(fx'.st \in {"active", "cleaned"} /\ fx'.deps = <<>>) =>
       /\ FxCalls(log') = 0
       /\ FxUnregistered
       /\ last'.op \in {"effect", "cleanup"} =>
            /\ last'.exc = "none"
            /\ UNCHANGED <<_value, currentValue, _listeners, hasKey, updateQueue,
                           isBatching>>]_vars

\* C15 witness: an effect with no dependencies was created and stopped, and a
\* later assignment notified a listener without calling the callback.
C15_Witness ==
  /\ fx.st = "cleaned" /\ fx.deps = <<>>
  /\ last.op = "write" /\ log # <<>> /\ FxCalls(log) = 0

\* A dependency list of one or more observables.
ValidDeps(d) == Len(d) >= 1 /\ \A k \in 1..Len(d) : d[k] \in Sources

C17_InvalidDependenciesRaise ==
  [][/\ (/\ last'.op = "effect"
          /\ \/ ~fx'.isArray
             \/ \E k \in 1..Len(fx'.deps) : fx'.deps[k] = "bad")
         => (last'.exc = "TypeError" /\ FxCalls(log') = 0)
     /\ fx.st = "failed" => FxCalls(log') = 0]_vars

\* C18 as claimed: when the callback of an effect fails (throws, or returns a
\* promise that rejects) during an assignment, the assignment throws nothing and
\* every listener registered on the observable, the ones after the effect
\* included, is still called.
C18_CallbackFailureIsolated ==
  [][(/\ last'.op = "write" /\ fx.st = "active" /\ fx.kind \in {"thr", "rej"}
      /\ FxCalls(log') > 0) =>
       /\ last'.exc = "none"
       /\ \A l \in {"rec"} \cup EffectListeners :
            Calls(log', l, last'.o) = Occurrences(_listeners[last'.o], l)]_vars
\* C19: when a listener throws during the emission started by an assignment,
\* the assignment throws that exception to its caller, no listener is called
\* after the throw (the listeners registered after the throwing one are
\* skipped), and the observable holds the assigned value.
C19_ThrowAbortsRound ==
  [][last'.op = "write" =>
       /\ \A k \in 1..Len(log') :
            (log'[k].t = "call" /\ log'[k].l = "thr")
            => (last'.exc = "listener" /\ k = Len(log'))
       /\ last'.exc = "listener" =>
            /\ ReadNext(last'.o) = last'.v
            /\ _value'[last'.o] = last'.v]_vars

\* C19 witness: thr is registered on a source ahead of a recomputation listener;
\* the last assignment called thr and nothing else, threw, and kept the value.
C19_Witness ==
  /\ last.op = "write" /\ last.exc = "listener"
  /\ Len(_listeners[last.o]) >= 2 /\ _listeners[last.o][1] = "thr"
  /\ Len(log) = 1 /\ log[1].l = "thr"
  /\ _value[last.o] = last.v /\ last.v # 0
\* Events named e in a trace.
Emitted(tr, e) == Cardinality({k \in 1..Len(tr) : tr[k].e = e})

\* C20: when the work function of a task that was never aborted has resolved
\* with r, run() resuming sets _meta.executed, leaves _meta.has_error false,
\* stores r in result, then emits done with (task, r), the only done and with no
\* error event, while its own future is still pending, and then that future
\* resolves with r; nothing more is emitted while the task is not aborted.
C20_SuccessfulRun ==
  [][/\ (/\ task.pc = "awaiting" /\ task'.pc = "finished"
          /\ task.work = "resolved" /\ task.aborts = 0)
         => /\ task'._meta = [executed |-> TRUE, has_error |-> FALSE]
            /\ task'.result = task.value
            /\ task'.trace = Append(task.trace,
                                    [e |-> "done", arg |-> task.value,
                                     _meta |-> [executed |-> TRUE, has_error |-> FALSE],
                                     result |-> task.value, future |-> "pending"])
            /\ Emitted(task'.trace, "done") = 1
            /\ Emitted(task'.trace, "error") = 0
            /\ task'.future = "resolved" /\ task'.settled = task.value
     /\ (/\ task.pc = "finished" /\ task.work = "resolved" /\ task'.aborts = 0)
         => task'.trace = task.trace]_vars

\* C20 witness: a run that was never aborted finished with result r2 and
\* resolved its future with it.
C20_Witness ==
  /\ task.pc = "finished" /\ task.work = "resolved" /\ task.aborts = 0
  /\ task.result = "r2" /\ task.future = "resolved" /\ task.settled = "r2"
  /\ Emitted(task.trace, "done") = 1

\* C21: however the work function fails (its promise rejects with any reason,
\* a falsy one included, or it throws before returning a promise), once run()
\* has finished _meta.executed and _meta.has_error are true, an error event
\* carrying that failure was emitted while the future of run() was still
\* pending, that future is rejected with the same failure, and no done event
\* was emitted.
C21_EveryFailureReported ==
  (task.pc = "finished" /\ task.work \in {"rejected", "threw"})
    => /\ task._meta.executed /\ task._meta.has_error
       /\ \E k \in 1..Len(task.trace) :
            /\ task.trace[k].e = "error" /\ task.trace[k].arg = task.value
            /\ task.trace[k].future = "pending"
       /\ task.future = "rejected" /\ task.settled = task.value
       /\ Emitted(task.trace, "done") = 0

\* C22: abort() without safe on a running task (run() is suspended at its
\* await) sets _meta.executed and _meta.has_error, triggers the cancellation
\* token and emits one error event, carrying the abort error and raised with
\* both flags already set, all within the call.
C22_AbortRaisesError ==
  [][(/\ task.pc = "awaiting" /\ task'.op = "abort"
      /\ task'.aborts = task.aborts + 1)
       => /\ task'._meta = [executed |-> TRUE, has_error |-> TRUE]
          /\ task'.aborted
          /\ task'.trace = Append(task.trace,
                                  [e |-> "error", arg |-> "abborted",
                                   _meta |-> [executed |-> TRUE, has_error |-> TRUE],
                                   result |-> task.result, future |-> task.future])
          /\ Emitted(task'.trace, "error") = Emitted(task.trace, "error") + 1]_vars

\* C22 witness: abort() has just returned on a task whose work function is
\* still pending, with one error event raised.
C22_Witness ==
  /\ task.op = "abort" /\ task.pc = "awaiting" /\ task.work = "pending"
  /\ task.aborts = 1 /\ task.aborted /\ task._meta.has_error
  /\ Emitted(task.trace, "error") = 1
  /\ task.trace[Len(task.trace)].arg = "abborted"

\* C23: abort(true) sets _meta.executed and triggers the cancellation token,
\* leaves _meta.has_error as it was and emits nothing.
C23_SafeAbortIsSilent ==
  [][(task'.op = "abortSafe" /\ task'.aborts = task.aborts + 1)
       => /\ task'._meta.executed
          /\ task'.aborted
          /\ task'._meta.has_error = task._meta.has_error
          /\ task'.trace = task.trace]_vars

\* C23 witness: abort(true) has just returned on a running task that had not
\* been marked as executed, and no error event exists.
C23_Witness ==
  /\ task.op = "abortSafe" /\ task.pc = "awaiting" /\ task.aborts = 1
  /\ task._meta = [executed |-> TRUE, has_error |-> FALSE]
  /\ task.aborted /\ Emitted(task.trace, "error") = 0

\* A task is in a terminal state (Done, Errored, Aborted-clean or
\* Aborted-error) once run() has gone past its await or abort was called: both
\* set _meta.executed, and nothing else does.
Terminal(t) == t._meta.executed

\* C24: once a task is in a terminal state no later step emits a done or an
\* error event or changes _meta or result, and no run ever has both an error
\* event and a done event.
C24_TerminalIsFinal ==
  /\ [][Terminal(task)
          => /\ Emitted(task'.trace, "done") = Emitted(task.trace, "done")
             /\ Emitted(task'.trace, "error") = Emitted(task.trace, "error")
             /\ task'._meta = task._meta
             /\ task'.result = task.result]_vars
  /\ [](Emitted(task.trace, "done") = 0 \/ Emitted(task.trace, "error") = 0)

\* C25: a call of abort, safe or not, returns with the cancellation token set
\* and leaves the work function and the suspended run() where they were; and a
\* work function that is pending with steps left can always execute its next
\* step, aborted or not.
C25_AbortNeverInterrupts ==
  /\ [][task'.aborts = task.aborts + 1
          => /\ task'.aborted
             /\ task'.work = task.work /\ task'.steps = task.steps
             /\ task'.value = task.value /\ task'.pc = task.pc
             /\ task'.future = task.future]_vars
  /\ []((task.work = "pending" /\ task.steps < MaxSteps) => ENABLED WorkStep)

\* C25 witness: abort was called before the work function had executed any
\* step; the work function then executed all its steps and resolved, and
\* run() finished.
C25_Witness ==
  /\ task.aborted /\ task.abortAt = 0 /\ task.aborts = 1
  /\ task.steps = MaxSteps /\ task.work = "resolved" /\ task.pc = "finished"

\* The events of a trace that run() emits after its await: done, and error
\* with the failure of the work function (abort emits error with its own
\* abort error).
ByRun(ev) == ev.e = "done" \/ (ev.e = "error" /\ ev.arg # "abborted")

\* C30: once run() has been called, start has been emitted exactly once and
\* the work function invoked exactly once, with the arguments given to run()
\* followed by the task; start was emitted before that invocation and before
\* every done or error event of the run.
C30_StartThenWork ==
  task.pc # "new"
    => /\ Emitted(task.trace, "start") = 1
       /\ Len(task.calls) = 1
       /\ task.calls[1].args = task.given \o <<"task">>
       /\ \E k \in 1..Len(task.trace) :
            /\ task.trace[k].e = "start"
            /\ k <= task.calls[1].at
            /\ \A j \in 1..Len(task.trace) : ByRun(task.trace[j]) => k < j

\* C30 witness: run(null, "a", "b") on a task that was aborted before has
\* finished with done; the work function got ("a", "b", task).
C30_Witness ==
  /\ task.pc = "finished" /\ task.given = <<"a", "b">>
  /\ Len(task.calls) = 1 /\ task.calls[1].args = <<"a", "b", "task">>
  /\ Len(task.trace) = 3 /\ task.trace[1].e = "error"
  /\ task.trace[2].e = "start" /\ task.trace[3].e = "done"

\* C26: with s1 and s2 constructed directly and c1 = signal(computed([s1, s2],
\* transform)), a batchUpdate whose body changes both sources calls the
\* callback of an effect bound to c1 exactly once, after the body has finished
\* (the batching flag is down), and at that call c1 reads as transform of the
\* two new source values.
C26_OneEffectRunPerBatch ==
  [][(/\ last'.op = "batchUpdateBoth"
      /\ constructed["c1"] /\ wrapped["c1"]
      /\ fx.st = "active" /\ fx.kind = "ok" /\ fx.deps = <<"c1">>
      /\ Changed("s1") /\ Changed("s2"))
       => /\ Calls(log', "fx_ok", "c1") = 1
          /\ \A k \in 1..Len(log') :
               (log'[k].t = "call" /\ log'[k].l = "fx_ok")
                 => /\ ~log'[k].batching
                    /\ log'[k].view["s1"] = _value'["s1"]
                    /\ log'[k].view["s2"] = _value'["s2"]
                    /\ Fresh("c1", log'[k].view)]_vars

\* The calls of the debounced function and the invocations of func, in order.
DebCalls == SelectSeq(deb.hist, LAMBDA ev : ev.k = "call")
DebFired == SelectSeq(deb.hist, LAMBDA ev : ev.k = "func")

\* The calls that end a maximal run of calls each arriving before Delay has
\* elapsed since the previous one: the last call, and every call followed by
\* one that arrives Delay or more after it.
RunEnds ==
  {i \in 1..Len(DebCalls) :
     i = Len(DebCalls) \/ DebCalls[i + 1].at >= DebCalls[i].at + Delay}

\* The j-th run end, in call order.
RunEnd(j) == CHOOSE i \in RunEnds : Cardinality({x \in RunEnds : x <= i}) = j

\* C27 as claimed: once no timer is pending, func has been invoked exactly once
\* for every maximal run of calls spaced by less than Delay, the j-th invocation
\* for the j-th run, with the argument of the last call of that run and no
\* earlier than Delay after it.
C27_OneInvocationPerRun ==
  deb.pending = {}
    => /\ Len(DebFired) = Cardinality(RunEnds)
       /\ \A j \in 1..Len(DebFired) :
            /\ DebFired[j].arg = DebCalls[RunEnd(j)].arg
            /\ DebFired[j].at >= DebCalls[RunEnd(j)].at + Delay

\* C27 amended: runs are delimited by the timer callback running, not by the
\* clock.  Every invocation of func directly follows a call of the debounced
\* function (no call and no other invocation in between), has the argument of
\* that call and is made no earlier than Delay after it; while calls keep
\* coming before the callback has run, at most one timer is pending, the one
\* of the last call; and when no timer is pending the last call has had its
\* invocation.  So every maximal run of calls not separated by an invocation
\* gets exactly one invocation, from the first call on.
C27_OneInvocationPerTimerRun ==
  LET h == deb.hist IN
  /\ \A n \in 1..Len(h) :
       h[n].k = "func"
         => /\ n > 1 /\ h[n - 1].k = "call"
            /\ h[n].arg = h[n - 1].arg
            /\ h[n].at >= h[n - 1].at + Delay
  /\ Cardinality(deb.pending) <= 1
  /\ \A t \in deb.pending :
       /\ h # <<>> /\ h[Len(h)].k = "call"
       /\ t.arg = h[Len(h)].arg /\ t.due = h[Len(h)].at + Delay
  /\ deb.pending = {} => (h = <<>> \/ h[Len(h)].k = "func")

\* C27 witness: two runs, the first of two calls starting with the very first
\* call of the debounced function, each followed by its one invocation.
C27_Witness ==
  /\ deb.pending = {} /\ Len(deb.hist) = 5
  /\ deb.hist[1] = [k |-> "call", at |-> 0, arg |-> "x"]
  /\ deb.hist[2].k = "call" /\ deb.hist[2].arg = "y"
  /\ deb.hist[3].k = "func" /\ deb.hist[3].arg = "y"
  /\ deb.hist[4].k = "call" /\ deb.hist[5].k = "func"

\* C28: in every reachable state each listener function appears at most once
\* in the listener sequence of every key.
C28_ListenerAtMostOncePerKey ==
  \A o \in Obs : \A i \in 1..Len(_listeners[o]) : \A j \in 1..Len(_listeners[o]) :
    _listeners[o][i] = _listeners[o][j] => i = j

\* C29: an emission round (started by emit or by an assignment) calls only
\* listeners that were registered when the round started, each at the position
\* it had then: a listener registered from inside a listener during the round
\* is not called in it.
C29_RoundCallsOnlyRegistered ==
  [][\A o \in EmitterObs :
       (last'.op \in {"emit", "write"} /\ last'.o = o)
         => \A k \in 1..Len(log') :
              (log'[k].t = "call" /\ log'[k].o = o)
                => /\ log'[k].i <= Len(_listeners[o])
                   /\ _listeners[o][log'[k].i] = log'[k].l]_vars

\* C31: the step that calls run() emits start and enters the work function,
\* hands back a future, and does nothing else: _meta and result are as before
\* (executed is false unless abort was called earlier), no done or error event
\* is emitted, and unless the work function threw run() is left suspended at
\* its await, also when the promise of the work function is already settled;
\* the events of the run come with a later step.
C31_RunSuspendsBeforeCompleting ==
  [][(task.pc = "new" /\ task'.pc # "new")
       => /\ task'.trace = Append(task.trace,
                                  [e |-> "start", arg |-> "undefined",
                                   _meta |-> task._meta, result |-> task.result,
                                   future |-> task.future])
          /\ Len(task'.calls) = 1
          /\ task'.future # "none"
          /\ task'._meta = task._meta /\ task'.result = task.result
          /\ task.aborts = 0 => ~task'._meta.executed
          /\ task'.work # "threw" => (task'.pc = "awaiting" /\ task'.future = "pending")]_vars

\* C31 witness: the work function had settled when run() returned; the caller
\* then called abort(), and only after that did run() resume and emit done.
C31_Witness ==
  /\ task.pc = "finished" /\ task.work = "resolved" /\ task.steps = 0
  /\ Len(task.trace) = 3 /\ task.trace[1].e = "start"
  /\ task.trace[2].e = "error" /\ task.trace[2].arg = "abborted"
  /\ ~task.trace[1]._meta.executed
  /\ task.trace[3].e = "done"

\* C32: in every reachable state _meta.has_error implies _meta.executed, and
\* no step takes either flag from true back to false.
C32_FlagsOrderedAndMonotonic ==
  /\ [](task._meta.has_error => task._meta.executed)
  /\ [][/\ task._meta.executed => task'._meta.executed
        /\ task._meta.has_error => task'._meta.has_error]_vars

\* C32 witness: a run whose work function rejected set both flags, and an
\* abort(true) after it left them set.
C32_Witness ==
  /\ task.op = "abortSafe" /\ task.pc = "finished" /\ task.work = "rejected"
  /\ task.aborts = 1
  /\ task._meta = [executed |-> TRUE, has_error |-> TRUE]

\* C33: every done event is emitted with _meta.has_error false.
C33_DoneNeverAfterError ==
  \A k \in 1..Len(task.trace) :
    task.trace[k].e = "done" => ~task.trace[k]._meta.has_error

\* C34: a call of effect() that fails with its TypeError leaves the listeners
\* of every observable as they were before the call.
C34_FailedEffectRegistersNothing ==
  [][(last'.op = "effect" /\ last'.exc = "TypeError")
       => (_listeners' = _listeners /\ hasKey' = hasKey)]_vars

\* C35: while a batchUpdate call is in progress, a write that changes a source
\* created by signal() shows in the source at once, and the computed value c1
\* derived from it keeps the value it had before the write, with no listener of
\* c1 called, until the flush at the close of the batch.
C35_ComputedHeldUntilFlush ==
  [][(/\ last'.op = "write" /\ depth > 0
      /\ wrapped[last'.o]
      /\ ReadNext(last'.o) # (IF wrapped[last'.o] THEN currentValue[last'.o]
                              ELSE _value[last'.o]))
       => /\ ReadNext(last'.o) = last'.v
          /\ ReadNext("c1") = (IF wrapped["c1"] THEN currentValue["c1"]
                               ELSE _value["c1"])
          /\ \A k \in 1..Len(log') :
               ~(log'[k].t = "call" /\ log'[k].o = "c1")]_vars

\* C36: every call of a change listener made by a write receives the value the
\* observable holds at the moment of the call, also when an earlier listener of
\* the same round has written to the observable.
C36_ArgumentIsCurrentValue ==
  [][last'.op = "write" =>
       \A k \in 1..Len(log') :
         log'[k].t = "call" => log'[k].arg = log'[k].view[log'[k].o]]_vars

\* C37: when the signal given to sleep() is aborted while the timeout is set,
\* the timeout is cleared; from then on the promise of sleep never settles, so
\* the work function stays suspended, run() stays at its await with its future
\* pending, and no done event is ever emitted.
C37_AbortedSleepNeverSettles ==
  /\ [][(task.timer = "set" /\ ~task.aborted /\ task'.aborted)
          => task'.timer = "cleared"]_vars
  /\ [][task.timer = "cleared" => task'.timer = "cleared"]_vars
  /\ [](task.timer = "cleared" =>
          /\ task.work = "sleeping" /\ task.pc = "awaiting"
          /\ task.future = "pending" /\ task.steps = 0
          /\ \A k \in 1..Len(task.trace) : task.trace[k].e # "done"
          /\ ~ENABLED SleepElapsed /\ ~ENABLED TaskResume)

\* C37 witness: run() was called, abort() came while the work function was in
\* its sleep, and a second abort() followed: the timeout is cleared, the error
\* event of abort() was emitted twice, and run() is still pending.
C37_Witness ==
  /\ task.timer = "cleared" /\ task.aborts = 2
  /\ task.pc = "awaiting" /\ task.future = "pending"
  /\ Len(task.trace) = 3 /\ task.trace[1].e = "start"
  /\ task.trace[2].e = "error" /\ task.trace[3].e = "error"
====
